---- MODULE Spec2Model ----
(***************************************************************************)
(* Model of sloc.go: the per-file line classifier language.Update and the  *)
(* stats accumulator it updates.                                           *)
(*                                                                         *)
(* Bytes are their numeric values.  Cursors lp, sp, ep are 0-based as in   *)
(* the source, so token byte lc[lp] of the source is lc[lp + 1] here.      *)
(***************************************************************************)
EXTENDS Integers, Sequences, FiniteSets, TLC

\* ------------------------------------------------------------------------
\* Bounds of the model
\* ------------------------------------------------------------------------
MaxLen == 3
MaxFiles == 2
MaxPairLen == 2
MaxRunLen == 2
MaxRunFiles == 3

\* ------------------------------------------------------------------------
\* Bytes the scanner compares against
\* ------------------------------------------------------------------------
NUL == 0
TAB == 9
LF == 10
CR == 13
SP == 32

\* ------------------------------------------------------------------------
\* commenter values (src/sloc.go:73-84), tokens as byte sequences
\*   47 '/'   42 '*'   35 '#'   59 ';'   45 '-'   123 '{'   125 '}'
\*   34 '"'   60 '<'   33 '!'   62 '>'
\* ------------------------------------------------------------------------
noComments ==
    [LineComment |-> <<NUL>>, StartComment |-> <<NUL>>, EndComment |-> <<NUL>>,
     Nesting |-> FALSE]
xmlComments ==
    [LineComment |-> <<NUL>>, StartComment |-> <<60, 33, 45, 45>>,
     EndComment |-> <<45, 45, 62>>, Nesting |-> FALSE]
cComments ==
    [LineComment |-> <<47, 47>>, StartComment |-> <<47, 42>>,
     EndComment |-> <<42, 47>>, Nesting |-> FALSE]
cssComments ==
    [LineComment |-> <<NUL>>, StartComment |-> <<47, 42>>,
     EndComment |-> <<42, 47>>, Nesting |-> FALSE]
shComments ==
    [LineComment |-> <<35>>, StartComment |-> <<NUL>>, EndComment |-> <<NUL>>,
     Nesting |-> FALSE]
semiComments ==
    [LineComment |-> <<59>>, StartComment |-> <<NUL>>, EndComment |-> <<NUL>>,
     Nesting |-> FALSE]
hsComments ==
    [LineComment |-> <<45, 45>>, StartComment |-> <<123, 45>>,
     EndComment |-> <<45, 125>>, Nesting |-> TRUE]
sqlComments ==
    [LineComment |-> <<45, 45>>, StartComment |-> <<NUL>>, EndComment |-> <<NUL>>,
     Nesting |-> FALSE]
pyComments ==
    [LineComment |-> <<35>>, StartComment |-> <<34, 34, 34>>,
     EndComment |-> <<34, 34, 34>>, Nesting |-> FALSE]
pasComments ==
    [LineComment |-> <<47, 47>>, StartComment |-> <<123>>,
     EndComment |-> <<125>>, Nesting |-> FALSE]

\* The commenter values the catalog `languages` uses (src/sloc.go:18-64).
Catalog ==
    {noComments, xmlComments, cComments, cssComments, shComments, semiComments,
     hsComments, sqlComments, pyComments, pasComments}

\* The Haskell tokens with the Nesting field false: a commenter value the
\* type admits and Update accepts, used to compare the two nesting policies.
hsFlatComments == [hsComments EXCEPT !.Nesting = FALSE]

Commenters == Catalog \cup {hsFlatComments}

\* ------------------------------------------------------------------------
\* Inputs
\* ------------------------------------------------------------------------
Range(q) == {q[k] : k \in 1..Len(q)}

TokenBytes(l) == Range(l.LineComment) \cup Range(l.StartComment) \cup Range(l.EndComment)

\* Every byte outside the tokens of l and outside the four whitespace bytes
\* takes the same path through the loop body; 97 'a' stands for them.
\* TAB and CR take the path of SP (line 138); the longer inputs below hold
\* them.
Alphabet(l) == TokenBytes(l) \cup {SP, LF, 97}

SeqsUpTo(A, n) == UNION {[1..k -> A] : k \in 0..n}

\* "/*\na\nb\n*/\n"
ExBlock == <<47, 42, 10, 97, 10, 98, 10, 42, 47, 10>>
\* "int x = 1; // comment\n"
ExInline ==
    <<105, 110, 116, 32, 120, 32, 61, 32, 49, 59, 32, 47, 47, 32,
      99, 111, 109, 109, 101, 110, 116, 10>>
\* "{- {- -} -}\n"
ExNest == <<123, 45, 32, 123, 45, 32, 45, 125, 32, 45, 125, 10>>
\* " \t\r\n\t\n"
ExBlank == <<32, 9, 13, 10, 9, 10>>
\* "# x\r\n\ty = 1\r\n\r\n"
ExCRLF == <<35, 32, 120, 13, 10, 9, 121, 32, 61, 32, 49, 13, 10, 13, 10>>

\* "/* **/\n"
ExStars == <<47, 42, 32, 42, 42, 47, 10>>
\* "<!-- --->\n"
ExDashes == <<60, 33, 45, 45, 32, 45, 45, 45, 62, 10>>
\* six double quotes
ExQuotes == <<34, 34, 34, 34, 34, 34>>
\* "// /*\na\n"
ExLineBlock == <<47, 47, 32, 47, 42, 10, 97, 10>>
\* "/*/"
ExSlashStarSlash == <<47, 42, 47>>

Examples ==
    {ExBlock, ExInline, ExNest, ExBlank, ExCRLF, ExStars, ExDashes, ExQuotes,
     ExLineBlock, ExSlashStarSlash}

Inputs(l) == SeqsUpTo(Alphabet(l), MaxLen) \cup Examples

PairInputs(l) == SeqsUpTo(Alphabet(l), MaxPairLen) \cup Examples

\* ------------------------------------------------------------------------
\* The stats record and the locals of Update
\* ------------------------------------------------------------------------
ZeroStats ==
    [FileCount |-> 0, TotalLines |-> 0, CodeLines |-> 0, BlankLines |-> 0,
     CommentLines |-> 0]

\* Add that leaves out BlankLines (line 292).
AddNoBlank(r, a) ==
    [r EXCEPT !.FileCount = @ + a.FileCount,
              !.CodeLines = @ + a.CodeLines,
              !.CommentLines = @ + a.CommentLines,
              !.TotalLines = @ + a.TotalLines]

\* lresult.Add (lines 288-294): the five counters of a are added to those
\* of r, every other field of r (Name) stays.
Add(r, a) ==
    [r EXCEPT !.FileCount = @ + a.FileCount,
              !.CodeLines = @ + a.CodeLines,
              !.CommentLines = @ + a.CommentLines,
              !.BlankLines = @ + a.BlankLines,
              !.TotalLines = @ + a.TotalLines]

\* Locals of Update as its declarations leave them (lines 96-102).
\* panic records an index-out-of-range failure of lc[lp], sc[sp] or ec[ep].
FreshLocals ==
    [inComment |-> 0, inLComment |-> FALSE, blank |-> TRUE,
     lp |-> 0, sp |-> 0, ep |-> 0, panic |-> FALSE]

\* EnterUpdate with inComment kept from the previous call.
EnterUpdateCarry(s, f) ==
    [s |-> [s EXCEPT !.FileCount = @ + 1],
     f |-> [FreshLocals EXCEPT !.inComment = f.inComment]]

\* Update's prologue: s.FileCount++ and the local declarations.  f is what
\* an earlier call left in the frame; the declarations overwrite all of it.
EnterUpdate(s, f) ==
    [s |-> [s EXCEPT !.FileCount = @ + 1], f |-> FreshLocals]

\* ------------------------------------------------------------------------
\* One iteration of the loop body, statement by statement
\* ------------------------------------------------------------------------
\* A cursor p indexes token tok without failing.
InRange(p, tok) == 0 <= p /\ p < Len(tok)

\* LineStep without `lp = 0` after a full match (line 109).
LineStepNoReset(f, b, l) ==
    IF f.panic THEN f
    ELSE IF f.inComment = 0
    THEN IF ~InRange(f.lp, l.LineComment) THEN [f EXCEPT !.panic = TRUE]
         ELSE IF b = l.LineComment[f.lp + 1]
              THEN IF f.lp + 1 = Len(l.LineComment)
                   THEN [f EXCEPT !.inLComment = TRUE, !.lp = f.lp + 1]
                   ELSE [f EXCEPT !.lp = f.lp + 1]
              ELSE [f EXCEPT !.lp = 0]
    ELSE [f EXCEPT !.lp = 0]

\* lines 105-113
LineStep(f, b, l) ==
    IF f.panic THEN f
    ELSE IF f.inComment = 0
    THEN IF ~InRange(f.lp, l.LineComment) THEN [f EXCEPT !.panic = TRUE]
         ELSE IF b = l.LineComment[f.lp + 1]
              THEN IF f.lp + 1 = Len(l.LineComment)
                   THEN [f EXCEPT !.inLComment = TRUE, !.lp = 0]
                   ELSE [f EXCEPT !.lp = f.lp + 1]
              ELSE [f EXCEPT !.lp = 0]
    ELSE [f EXCEPT !.lp = 0]

\* StartStep that clamps the depth to 1 whatever l.Nesting says.
StartStepClamp(f, b, l) ==
    IF f.panic THEN f
    ELSE IF ~f.inLComment
    THEN IF ~InRange(f.sp, l.StartComment) THEN [f EXCEPT !.panic = TRUE]
         ELSE IF b = l.StartComment[f.sp + 1]
              THEN IF f.sp + 1 = Len(l.StartComment)
                   THEN [f EXCEPT !.inComment = 1, !.sp = 0]
                   ELSE [f EXCEPT !.sp = f.sp + 1]
              ELSE [f EXCEPT !.sp = 0]
    ELSE [f EXCEPT !.sp = 0]

\* StartStep without the clamp of lines 118-120.
StartStepNoClamp(f, b, l) ==
    IF f.panic THEN f
    ELSE IF ~f.inLComment
    THEN IF ~InRange(f.sp, l.StartComment) THEN [f EXCEPT !.panic = TRUE]
         ELSE IF b = l.StartComment[f.sp + 1]
              THEN IF f.sp + 1 = Len(l.StartComment)
                   THEN [f EXCEPT !.inComment = f.inComment + 1, !.sp = 0]
                   ELSE [f EXCEPT !.sp = f.sp + 1]
              ELSE [f EXCEPT !.sp = 0]
    ELSE [f EXCEPT !.sp = 0]

\* StartStep without the `!inLComment` guard of line 114.
StartStepInLine(f, b, l) ==
    IF f.panic THEN f
    ELSE IF ~InRange(f.sp, l.StartComment) THEN [f EXCEPT !.panic = TRUE]
    ELSE IF b = l.StartComment[f.sp + 1]
    THEN IF f.sp + 1 = Len(l.StartComment)
         THEN [f EXCEPT
                 !.inComment =
                     IF f.inComment + 1 > 1 /\ ~l.Nesting
                     THEN 1 ELSE f.inComment + 1,
                 !.sp = 0]
         ELSE [f EXCEPT !.sp = f.sp + 1]
    ELSE [f EXCEPT !.sp = 0]

\* lines 114-125
StartStep(f, b, l) ==
    IF f.panic THEN f
    ELSE IF ~f.inLComment
    THEN IF ~InRange(f.sp, l.StartComment) THEN [f EXCEPT !.panic = TRUE]
         ELSE IF b = l.StartComment[f.sp + 1]
              THEN IF f.sp + 1 = Len(l.StartComment)
                   THEN [f EXCEPT
                           !.inComment =
                               IF f.inComment + 1 > 1 /\ ~l.Nesting
                               THEN 1 ELSE f.inComment + 1,
                           !.sp = 0]
                   ELSE [f EXCEPT !.sp = f.sp + 1]
              ELSE [f EXCEPT !.sp = 0]
    ELSE [f EXCEPT !.sp = 0]

\* lines 126-136
EndStep(f, b, l) ==
    IF f.panic THEN f
    ELSE IF ~f.inLComment /\ f.inComment > 0
    THEN IF ~InRange(f.ep, l.EndComment) THEN [f EXCEPT !.panic = TRUE]
         ELSE IF b = l.EndComment[f.ep + 1]
              THEN IF f.ep + 1 = Len(l.EndComment)
                   THEN [f EXCEPT
                           !.inComment = IF f.inComment > 0 THEN f.inComment - 1
                                         ELSE f.inComment,
                           !.ep = 0]
                   ELSE [f EXCEPT !.ep = f.ep + 1]
              ELSE [f EXCEPT !.ep = 0]
    ELSE [f EXCEPT !.ep = 0]

\* lines 138-140
BlankStep(f, b) ==
    IF f.panic THEN f
    ELSE IF b # SP /\ b # TAB /\ b # LF /\ b # CR
    THEN [f EXCEPT !.blank = FALSE]
    ELSE f

\* IsNewline that takes CR for a line end too.
IsNewlineCR(b) == b = LF \/ b = CR

\* line 145: the byte ends a line
IsNewline(b) == b = LF

\* TallyLine that also counts a non-blank comment line as code.
TallyLineBoth(s, f) ==
    IF f.inComment > 0 \/ f.inLComment
    THEN [s EXCEPT !.TotalLines = @ + 1, !.CommentLines = @ + 1,
                   !.CodeLines = IF f.blank THEN @ ELSE @ + 1]
    ELSE IF f.blank
    THEN [s EXCEPT !.TotalLines = @ + 1, !.BlankLines = @ + 1]
    ELSE [s EXCEPT !.TotalLines = @ + 1, !.CodeLines = @ + 1]

\* TallyLine whose comment test leaves out `|| inLComment` (line 147).
TallyLineBlockOnly(s, f) ==
    IF f.inComment > 0
    THEN [s EXCEPT !.TotalLines = @ + 1, !.CommentLines = @ + 1]
    ELSE IF f.blank
    THEN [s EXCEPT !.TotalLines = @ + 1, !.BlankLines = @ + 1]
    ELSE [s EXCEPT !.TotalLines = @ + 1, !.CodeLines = @ + 1]

\* TallyLine that tests blank before the comment state.
TallyLineBlankFirst(s, f) ==
    IF f.blank
    THEN [s EXCEPT !.TotalLines = @ + 1, !.BlankLines = @ + 1]
    ELSE IF f.inComment > 0 \/ f.inLComment
    THEN [s EXCEPT !.TotalLines = @ + 1, !.CommentLines = @ + 1]
    ELSE [s EXCEPT !.TotalLines = @ + 1, !.CodeLines = @ + 1]

\* lines 146-154, the counters
TallyLine(s, f) ==
    IF f.inComment > 0 \/ f.inLComment
    THEN [s EXCEPT !.TotalLines = @ + 1, !.CommentLines = @ + 1]
    ELSE IF f.blank
    THEN [s EXCEPT !.TotalLines = @ + 1, !.BlankLines = @ + 1]
    ELSE [s EXCEPT !.TotalLines = @ + 1, !.CodeLines = @ + 1]

\* NextLine without `blank = true` (line 155).
NextLineKeepBlank(f) ==
    IF f.inComment > 0 \/ f.inLComment
    THEN [f EXCEPT !.inLComment = FALSE]
    ELSE f

\* NextLine without `inLComment = false` (line 148).
NextLineKeepLComment(f) == [f EXCEPT !.blank = TRUE]

\* lines 147-155, the locals
NextLine(f) ==
    IF f.inComment > 0 \/ f.inLComment
    THEN [f EXCEPT !.inLComment = FALSE, !.blank = TRUE]
    ELSE [f EXCEPT !.blank = TRUE]

\* lines 105-157: the whole loop body for byte b
ScanByte(m, b, l) ==
    LET g == BlankStep(EndStep(StartStep(LineStep(m.f, b, l), b, l), b, l), b)
    IN  IF g.panic THEN [s |-> m.s, f |-> g]
        ELSE IF IsNewline(b) THEN [s |-> TallyLine(m.s, g), f |-> NextLine(g)]
        ELSE [s |-> m.s, f |-> g]

\* lines 104-158: the loop over c[k..], stopping at a failure
RECURSIVE ScanFrom(_, _, _, _)
ScanFrom(m, c, k, l) ==
    IF k > Len(c) \/ m.f.panic THEN m
    ELSE ScanFrom(ScanByte(m, c[k], l), c, k + 1, l)

\* Update that tallies an unterminated last line when the loop ends.
UpdateTallyTail(c, l, s, f) ==
    LET m == ScanFrom(EnterUpdate(s, f), c, 1, l)
    IN  IF Len(c) > 0 /\ c[Len(c)] # LF
        THEN [s |-> TallyLine(m.s, m.f), f |-> m.f]
        ELSE m

\* lines 93-159: one call l.Update(c, s), from accumulator s and frame f
Update(c, l, s, f) == ScanFrom(EnterUpdate(s, f), c, 1, l)

\* ------------------------------------------------------------------------
\* State
\* ------------------------------------------------------------------------
VARIABLES
    lang,     \* the commenter of the language whose accumulator this is
    st,       \* [s |-> the accumulator *stats, f |-> the locals of Update]
    c,        \* the bytes of the file being scanned
    i,        \* 1-based position of the next byte of c
    pc,       \* "idle", "scan", "panic"; "pure", "applied" under SpecPure
    s0,       \* the accumulator when the current call was entered
    lineHit,  \* the line-comment token was matched on the current line
    fa, fb,   \* SpecPure: two file contents
    res,      \* SpecPure: results of the scans of fa and fb
    info,     \* SpecRun: the map `info`, language name -> stats
    rows,     \* SpecRun: the rows printInfo writes, in order
    handled,  \* SpecRun: number of files handleFile was called on
    last      \* SpecRun: name and readability of the latest handled file

vars == <<lang, st, c, i, pc, s0, lineHit, fa, fb, res, info, rows, handled, last>>

pureVars == <<fa, fb, res>>

runVars == <<info, rows, handled, last>>

\* What is remembered of the latest file: the extension of its name and
\* whether ioutil.ReadFile succeeded on it.
NoFile == [ext |-> "", readable |-> TRUE]

\* The line-comment token completes on byte b (lines 105-108).
LineMatched(f, b, l) ==
    /\ f.inComment = 0
    /\ InRange(f.lp, l.LineComment)
    /\ b = l.LineComment[f.lp + 1]
    /\ f.lp + 1 = Len(l.LineComment)

Init ==
    /\ lang \in Commenters
    /\ st = [s |-> ZeroStats, f |-> FreshLocals]
    /\ c = <<>>
    /\ i = 1
    /\ pc = "idle"
    /\ s0 = ZeroStats
    /\ lineHit = FALSE
    /\ fa = <<>>
    /\ fb = <<>>
    /\ res = <<>>
    /\ info = <<>>
    /\ rows = <<>>
    /\ handled = 0
    /\ last = NoFile

\* handleFile calls l.Update(c, i) with the bytes of one more file
\* (lines 219-224, 93-102).
UpdateBegin ==
    /\ pc = "idle"
    /\ st.s.FileCount < MaxFiles
    /\ \E bytes \in Inputs(lang) : c' = bytes
    /\ i' = 1
    /\ s0' = st.s
    /\ st' = EnterUpdate(st.s, st.f)
    /\ lineHit' = FALSE
    /\ pc' = "scan"
    /\ UNCHANGED <<lang, pureVars, runVars>>

\* One iteration of `for _, b := range c` (lines 104-158).
ScanStep ==
    /\ pc = "scan"
    /\ i <= Len(c)
    /\ st' = ScanByte(st, c[i], lang)
    /\ i' = i + 1
    /\ lineHit' = IF IsNewline(c[i]) THEN FALSE
                  ELSE lineHit \/ LineMatched(st.f, c[i], lang)
    /\ pc' = IF st'.f.panic THEN "panic" ELSE "scan"
    /\ UNCHANGED <<lang, c, s0, pureVars, runVars>>

\* The loop is exhausted and Update returns (line 159): the accumulator
\* keeps what the call added, the locals and the slice c are gone.
UpdateReturn ==
    /\ pc = "scan"
    /\ i > Len(c)
    /\ pc' = "idle"
    /\ st' = [s |-> st.s, f |-> FreshLocals]
    /\ c' = <<>>
    /\ i' = 1
    /\ s0' = st.s
    /\ lineHit' = FALSE
    /\ UNCHANGED <<lang, pureVars, runVars>>

Next == UpdateBegin \/ ScanStep \/ UpdateReturn

Spec == Init /\ [][Next]_vars

\* ------------------------------------------------------------------------
\* Update as a function of whole files: two files fa and fb of one language
\* scanned in both orders, each alone, and as one file fa fb
\* ------------------------------------------------------------------------
InitPure ==
    /\ lang \in Commenters
    /\ fa \in PairInputs(lang)
    /\ fb \in PairInputs(lang)
    /\ res = <<>>
    /\ pc = "pure"
    /\ st = [s |-> ZeroStats, f |-> FreshLocals]
    /\ c = <<>>
    /\ i = 1
    /\ s0 = ZeroStats
    /\ lineHit = FALSE
    /\ info = <<>>
    /\ rows = <<>>
    /\ handled = 0
    /\ last = NoFile

\* handleFile on fa then fb, on fb then fa, on each alone and on the file
\* whose bytes are fa followed by fb (lines 214-224).
ScanFiles ==
    /\ pc = "pure"
    /\ LET ra == Update(fa, lang, ZeroStats, FreshLocals)
           rb == Update(fb, lang, ZeroStats, FreshLocals)
       IN  res' = [a |-> ra,
                   b |-> rb,
                   ab |-> Update(fb, lang, ra.s, ra.f),
                   ba |-> Update(fa, lang, rb.s, rb.f),
                   cat |-> Update(fa \o fb, lang, ZeroStats, FreshLocals)]
    /\ pc' = "applied"
    /\ UNCHANGED <<lang, st, c, i, s0, lineHit, fa, fb, runVars>>

NextPure == ScanFiles

SpecPure == InitPure /\ [][NextPure]_vars

\* ------------------------------------------------------------------------
\* A run of main: handleFile on each listed file, then printInfo
\* ------------------------------------------------------------------------
\* Language names as byte sequences, compared as Go compares strings.
NameC == <<67>>
NameGo == <<71, 111>>
NameMarkdown == <<77, 97, 114, 107, 100, 111, 119, 110>>
NameXML == <<88, 77, 76>>
\* "Total", the name printInfo gives the total row (line 309)
NameTotal == <<84, 111, 116, 97, 108>>

\* Four entries of `languages` (lines 21, 23, 52, 59) in catalog order:
\* name, the extensions of its mExt matcher, commenter.
Languages ==
    << [name |-> NameC, exts |-> {".c", ".h"}, commenter |-> cComments],
       [name |-> NameGo, exts |-> {".go"}, commenter |-> cComments],
       [name |-> NameMarkdown, exts |-> {".md"}, commenter |-> noComments],
       [name |-> NameXML, exts |-> {".xml"}, commenter |-> xmlComments] >>

\* mExt's matcher (lines 169-178) on the extension of the file name
Match(l, ext) == ext \in l.exts

\* "//\n"
ExSlashes == <<47, 47, 10>>

\* The files a run may list: a name matching one of the languages or none
\* (".txt"), readable with some bytes or unreadable.
RunFiles ==
    {[ext |-> e, readable |-> r, bytes |-> b] :
        e \in {".c", ".h", ".go", ".md", ".xml", ".txt"},
        r \in {TRUE},
        b \in SeqsUpTo({97, LF}, MaxRunLen) \cup {ExSlashes}}
    \cup
    {[ext |-> e, readable |-> FALSE, bytes |-> <<>>] :
        e \in {".c", ".h", ".go", ".md", ".xml", ".txt"}}

\* The map info after handleFile(file) (lines 201-225): first match wins,
\* no match leaves the map alone; the entry of the language is looked up or
\* created, then the file is read, and Update runs if the read succeeded.
HandleFileInfo(m, file) ==
    LET hits == {k \in 1..Len(Languages) : Match(Languages[k], file.ext)}
    IN  IF hits = {} THEN m
        ELSE LET k == CHOOSE x \in hits : \A y \in hits : x <= y
                 l == Languages[k]
                 m1 == IF l.name \in DOMAIN m THEN m
                       ELSE (l.name :> ZeroStats) @@ m
             IN  IF ~file.readable THEN m1
                 ELSE [m1 EXCEPT ![l.name] =
                          Update(file.bytes, l.commenter, m1[l.name], FreshLocals).s]

\* a < b for Go strings: bytewise, a proper prefix is smaller
RECURSIVE StrLess(_, _)
StrLess(a, b) ==
    IF Len(b) = 0 THEN FALSE
    ELSE IF Len(a) = 0 THEN TRUE
    ELSE IF a[1] # b[1] THEN a[1] < b[1]
    ELSE StrLess(Tail(a), Tail(b))

\* Less that compares the code-line counts only.
LessCodeOnly(x, y) == x.CodeLines > y.CodeLines

\* ldata.Less (lines 268-273)
Less(x, y) ==
    IF x.CodeLines = y.CodeLines THEN StrLess(y.Name, x.Name)
    ELSE x.CodeLines > y.CodeLines

\* The lresult printInfo builds for entry n of info (lines 311-318)
RowOf(m, n) ==
    [Name |-> n, FileCount |-> m[n].FileCount, CodeLines |-> m[n].CodeLines,
     CommentLines |-> m[n].CommentLines, BlankLines |-> m[n].BlankLines,
     TotalLines |-> m[n].TotalLines]

\* total before the loop (lines 308-309)
EmptyTotal ==
    [Name |-> NameTotal, FileCount |-> 0, CodeLines |-> 0, CommentLines |-> 0,
     BlankLines |-> 0, TotalLines |-> 0]

\* The loop of lines 310-321 over the keys in iteration order `order`,
\* from key k on: d grows by the row, total.Add(r).
RECURSIVE Collect(_, _, _, _)
Collect(m, order, k, acc) ==
    IF k > Len(order) THEN acc
    ELSE LET r == RowOf(m, order[k])
         IN  Collect(m, order, k + 1,
                     [d |-> Append(acc.d, r), total |-> Add(acc.total, r)])

\* x put into the sorted sequence q before the first row it is Less than
RECURSIVE Insert(_, _)
Insert(q, x) ==
    IF Len(q) = 0 THEN <<x>>
    ELSE IF Less(x, q[1]) THEN <<x>> \o q
    ELSE <<q[1]>> \o Insert(Tail(q), x)

\* sort.Sort(d) (line 323) with ldata.Less as the order
RECURSIVE Sort(_)
Sort(d) ==
    IF Len(d) = 0 THEN <<>>
    ELSE Insert(Sort(SubSeq(d, 1, Len(d) - 1)), d[Len(d)])

\* The orders in which `range info` may visit the keys of the map
Orders(S) == {q \in [1..Cardinality(S) -> S] : Range(q) = S}

\* printInfo's rows (lines 307-323) when the map is iterated in `order`
PrintRows(m, order) ==
    LET acc == Collect(m, order, 1, [d |-> <<>>, total |-> EmptyTotal])
    IN  Sort(Append(acc.d, acc.total))

InitRun ==
    /\ info = <<>>
    /\ rows = <<>>
    /\ handled = 0
    /\ last = NoFile
    /\ pc = "run"
    /\ lang = noComments
    /\ st = [s |-> ZeroStats, f |-> FreshLocals]
    /\ c = <<>>
    /\ i = 1
    /\ s0 = ZeroStats
    /\ lineHit = FALSE
    /\ fa = <<>>
    /\ fb = <<>>
    /\ res = <<>>

\* One iteration of main's loop over files (lines 377-379)
HandleFile ==
    /\ pc = "run"
    /\ handled < MaxRunFiles
    /\ \E file \in RunFiles :
          /\ info' = HandleFileInfo(info, file)
          /\ last' = [ext |-> file.ext, readable |-> file.readable]
    /\ handled' = handled + 1
    /\ UNCHANGED <<rows, pc, lang, st, c, i, s0, lineHit, pureVars>>

\* printInfo (lines 304-338) after the last file
PrintInfo ==
    /\ pc = "run"
    /\ \E order \in Orders(DOMAIN info) : rows' = PrintRows(info, order)
    /\ pc' = "printed"
    /\ UNCHANGED <<info, handled, last, lang, st, c, i, s0, lineHit, pureVars>>

NextRun == HandleFile \/ PrintInfo

SpecRun == InitRun /\ [][NextRun]_vars

\* ------------------------------------------------------------------------
\* What the input says, read off the bytes themselves
\* ------------------------------------------------------------------------
\* Number of LF bytes among the first n bytes of q.
CountLF(q, n) == Cardinality({k \in 1..n : q[k] = LF})

\* First position of the line that position k of q lies on.
LineStart(q, k) ==
    LET nls == {j \in 1..(k - 1) : q[j] = LF}
    IN  IF nls = {} THEN 1
        ELSE 1 + (CHOOSE j \in nls : \A m \in nls : m <= j)

\* The line ended by position k of q holds only SP, TAB and CR.
LineIsBlank(q, k) == \A j \in LineStart(q, k)..(k - 1) : q[j] \in {SP, TAB, CR}

\* Number of LF-terminated lines among the first n bytes of q that hold a
\* byte other than SP, TAB, CR and LF.
NonBlankLines(q, n) ==
    Cardinality({k \in 1..n : q[k] = LF /\ ~LineIsBlank(q, k)})

\* The loop is about to consume a LF byte.
AtNewline == pc = "scan" /\ i <= Len(c) /\ c[i] = LF

\* The loop has consumed all of c and Update has not returned yet.
ScanDone == pc = "scan" /\ i > Len(c)

\* What the current call has added to the accumulator so far.
Added == [TotalLines |-> st.s.TotalLines - s0.TotalLines,
          CodeLines |-> st.s.CodeLines - s0.CodeLines,
          BlankLines |-> st.s.BlankLines - s0.BlankLines,
          CommentLines |-> st.s.CommentLines - s0.CommentLines]

\* ------------------------------------------------------------------------
\* Claims
\* ------------------------------------------------------------------------

C2_TotalCountsNewlines ==
    pc = "scan" => Added.TotalLines = CountLF(c, i - 1)

\* C2 witness: a second call has consumed a whole input holding CR and at
\* least three LF bytes.
C2_Witness ==
    /\ ScanDone
    /\ st.s.FileCount = 2
    /\ CR \in Range(c)
    /\ CountLF(c, Len(c)) >= 3
    /\ Added.TotalLines = CountLF(c, Len(c))

\* C3 (as claimed): "/*\na\nb\n*/\n" under the C-style commenter adds
\* TotalLines = 4, CommentLines = 4, CodeLines = 0, BlankLines = 0.
C3_BlockExampleClaimed ==
    (ScanDone /\ lang = cComments /\ c = ExBlock)
        => Added = [TotalLines |-> 4, CodeLines |-> 0, BlankLines |-> 0,
                    CommentLines |-> 4]

NestDepths == <<0, 0, 1, 1, 1, 2, 2, 2, 1, 1, 1, 0, 0>>
FlatDepths == <<0, 0, 1, 1, 1, 1, 1, 1, 0, 0, 0, 0, 0>>

\* C5: scanning "{- {- -} -}\n", the depth goes 1, 2, 1, 0 with nesting and
\* stays above 0 until the last -} is consumed; without nesting it never
\* exceeds 1 and the first -} brings it to 0.
C5_NestingPolicy ==
    (pc = "scan" /\ c = ExNest)
        => /\ lang = hsComments => st.f.inComment = NestDepths[i]
           /\ lang = hsFlatComments => st.f.inComment = FlatDepths[i]

\* C5 witness: the second {- of the example has just been consumed under the
\* nesting commenter and the depth is 2.
C5_Witness ==
    /\ pc = "scan"
    /\ c = ExNest
    /\ lang = hsComments
    /\ i = 6
    /\ st.f.inComment = 2

\* C7 (as claimed): under noComments every LF-terminated line holding a byte
\* other than SP, TAB, CR, LF is counted as code and CommentLines does not grow.
C7_NoCommentsClaimed ==
    (pc = "scan" /\ lang = noComments)
        => /\ Added.CommentLines = 0
           /\ Added.CodeLines = NonBlankLines(c, i - 1)

\* C8: a LF that ends a line of only SP, TAB and CR while the block depth is
\* 0 adds one blank line, no code line and no comment line.
C8_BlankLine ==
    [][(AtNewline /\ st.f.inComment = 0 /\ LineIsBlank(c, i))
          => /\ st'.s.BlankLines = st.s.BlankLines + 1
             /\ st'.s.CodeLines = st.s.CodeLines
             /\ st'.s.CommentLines = st.s.CommentLines]_vars

\* C8 witness: the line " \t\r" of " \t\r\n\t\n" has just been ended and one
\* blank line was added, after an earlier file.
C8_Witness ==
    /\ pc = "scan"
    /\ st.s.FileCount = 2
    /\ c = ExBlank
    /\ i = 5
    /\ st.f.inComment = 0
    /\ Added.BlankLines = 1
    /\ Added.CodeLines = 0
    /\ Added.CommentLines = 0

\* C10: no scan fails, and while a scan runs each of lp, sp, ep is a valid
\* index into its token.
C10_CursorsInRange ==
    /\ pc # "panic"
    /\ ~st.f.panic
    /\ pc = "scan" =>
          /\ InRange(st.f.lp, lang.LineComment)
          /\ InRange(st.f.sp, lang.StartComment)
          /\ InRange(st.f.ep, lang.EndComment)

\* C10 witness: a scan has reached the end of an input on which a token was
\* completed and another is partly matched.
C10_Witness ==
    /\ ScanDone
    /\ Len(c) >= 3
    /\ st.f.inComment > 0
    /\ st.f.sp > 0

\* C6: for a suffix fb without LF, one Update call on fa followed by fb
\* leaves the same five counters as one Update call on fa.
C6_NoTrailingPartialLine ==
    (pc = "applied" /\ LF \notin Range(fb)) => res.cat.s = res.a.s

\* C6 witness: fa ends in an unterminated line after a counted one and fb
\* adds bytes to that line.
C6_Witness ==
    /\ pc = "applied"
    /\ Len(fb) > 0
    /\ LF \notin Range(fb)
    /\ Len(fa) > 0
    /\ fa[Len(fa)] # LF
    /\ res.a.s.TotalLines > 0
    /\ res.cat.s = res.a.s

\* C9: scanning fa then fb into one accumulator gives the same five counters
\* as fb then fa, and both are the field-wise sum of fa alone and fb alone.
C9_MergeOrder ==
    pc = "applied"
        => /\ res.ab.s = res.ba.s
           /\ res.ab.s = Add(res.a.s, res.b.s)
           /\ res.ba.s = Add(res.b.s, res.a.s)

\* C9 witness: fa leaves a block comment open and fb holds a code line.
C9_Witness ==
    /\ pc = "applied"
    /\ res.a.f.inComment > 0
    /\ res.b.s.CodeLines > 0
    /\ res.ab.s = res.ba.s
    /\ res.ab.s.CodeLines = res.b.s.CodeLines + res.a.s.CodeLines

\* C14: the block depth is never negative, and under a commenter with
\* Nesting false it is 0 or 1, whatever tokens the input holds.
C14_DepthBounds ==
    /\ st.f.inComment >= 0
    /\ ~lang.Nesting => st.f.inComment \in {0, 1}

\* C14 witness: a non-nesting scan has consumed two block-start tokens and
\* nothing else, and the depth is 1.
C14_Witness ==
    /\ ScanDone
    /\ lang = pasComments
    /\ c = <<123, 123>>
    /\ st.f.inComment = 1

C16_MismatchRestartClaimed ==
    /\ (ScanDone /\ lang = cComments /\ c = ExStars) => st.f.inComment = 0
    /\ (ScanDone /\ lang = xmlComments /\ c = ExDashes) => st.f.inComment = 0

\* C17: inLComment is false at the first byte of every line, and a LF that
\* ends a line scanned at depth 0 on which the line-comment token was not
\* matched adds no comment line: the line is counted as code or as blank.
C17_LineCommentReset ==
    [][/\ (pc' = "scan" /\ (i' = 1 \/ c'[i' - 1] = LF)) => ~st'.f.inLComment
       /\ (AtNewline /\ st.f.inComment = 0
             /\ ~(lineHit \/ LineMatched(st.f, c[i], lang)))
            => /\ st'.s.CommentLines = st.s.CommentLines
               /\ st'.s.CodeLines + st'.s.BlankLines
                     = st.s.CodeLines + st.s.BlankLines + 1]_vars

\* C17 witness: "# x\r\n\ty = 1\r\n\r\n" has been scanned under the shell
\* commenter: the comment line is followed by one code and one blank line.
C17_Witness ==
    /\ ScanDone
    /\ lang = shComments
    /\ c = ExCRLF
    /\ ~st.f.inLComment
    /\ Added = [TotalLines |-> 3, CodeLines |-> 1, BlankLines |-> 1,
                CommentLines |-> 1]

\* C18: once the line-comment token has been matched on a line, no later
\* byte of that line changes the block depth; scanning "// /*\na\n" under
\* the C-style commenter the depth stays 0 and the second line is code.
C18_NoBlockInLineComment ==
    [][/\ (pc = "scan" /\ i <= Len(c) /\ lineHit)
            => st'.f.inComment = st.f.inComment
       /\ (pc' = "scan" /\ lang = cComments /\ c' = ExLineBlock)
            => /\ st'.f.inComment = 0
               /\ i' > Len(c')
                    => /\ st'.s.CommentLines = s0'.CommentLines + 1
                       /\ st'.s.CodeLines = s0'.CodeLines + 1]_vars

\* C18 witness: "// /*\na\n" has been scanned under the C-style commenter,
\* the depth is 0 and one comment and one code line were added.
C18_Witness ==
    /\ ScanDone
    /\ lang = cComments
    /\ c = ExLineBlock
    /\ st.f.inComment = 0
    /\ Added.CommentLines = 1
    /\ Added.CodeLines = 1

\* C19 (as claimed): the byte that completes a block-start token is not the
\* first byte of a block-end match: "/*/" under the C-style commenter leaves
\* the depth at 1, six double quotes under the Python commenter leave it at 0.
C19_EndAfterStartClaimed ==
    /\ (ScanDone /\ lang = cComments /\ c = ExSlashStarSlash)
          => st.f.inComment = 1
    /\ (ScanDone /\ lang = pyComments /\ c = ExQuotes) => st.f.inComment = 0

\* ------------------------------------------------------------------------
\* Claims about a run
\* ------------------------------------------------------------------------
\* Sum of field fld over the rows of the set R.
RECURSIVE SumOf(_, _)
SumOf(R, fld) ==
    IF R = {} THEN 0
    ELSE LET r == CHOOSE x \in R : TRUE
         IN  r[fld] + SumOf(R \ {r}, fld)

\* The printed rows of the languages, and the printed total rows.
LangRows == {rows[k] : k \in {j \in 1..Len(rows) : rows[j].Name # NameTotal}}
TotalRows == {rows[k] : k \in {j \in 1..Len(rows) : rows[j].Name = NameTotal}}

CounterFields ==
    {"FileCount", "CodeLines", "CommentLines", "BlankLines", "TotalLines"}

\* C11 (as claimed): a handleFile call on a file that cannot be read leaves
\* the map info as it was: the same language entries with the same counters.
C11_UnreadableSkippedClaimed ==
    [][(handled' = handled + 1 /\ ~last'.readable) => info' = info]_vars

\* C12: the printed Total row is the field-wise sum of the printed language
\* rows, which are the entries of info, one row each.
C12_TotalRowIsSum ==
    pc = "printed"
        => /\ Cardinality(TotalRows) = 1
           /\ LangRows = {RowOf(info, n) : n \in DOMAIN info}
           /\ Len(rows) = Cardinality(DOMAIN info) + 1
           /\ \A t \in TotalRows :
                 \A fld \in CounterFields : t[fld] = SumOf(LangRows, fld)

\* C12 witness: rows of two languages were printed, and the total counts at
\* least three files and lines of each bucket.
C12_Witness ==
    /\ pc = "printed"
    /\ Cardinality(LangRows) >= 2
    /\ \E t \in TotalRows :
          /\ t.FileCount >= 3
          /\ t.CodeLines > 0
          /\ t.CommentLines > 0
          /\ t.BlankLines > 0

\* C13 (as claimed): the printed rows are ordered by code-line count
\* descending, ties broken by name ascending.
C13_RowOrderClaimed ==
    pc = "printed"
        => \A k \in 1..(Len(rows) - 1) :
              \/ rows[k].CodeLines > rows[k + 1].CodeLines
              \/ /\ rows[k].CodeLines = rows[k + 1].CodeLines
                 /\ StrLess(rows[k].Name, rows[k + 1].Name)

\* C13 (amended): the printed rows are ordered by code-line count
\* descending, ties broken by name descending; the order is strict and the
\* rows are those of info plus the total, so every iteration order of the
\* map prints the same sequence.
C13_RowOrder ==
    pc = "printed"
        => /\ \A k \in 1..(Len(rows) - 1) :
                 \/ rows[k].CodeLines > rows[k + 1].CodeLines
                 \/ /\ rows[k].CodeLines = rows[k + 1].CodeLines
                    /\ StrLess(rows[k + 1].Name, rows[k].Name)
           /\ \A order \in Orders(DOMAIN info) : rows = PrintRows(info, order)

\* C13 witness: three language rows and the total were printed, two of the
\* language rows tie on the code-line count, and one language outranks
\* another whose name is greater.
C13_Witness ==
    /\ pc = "printed"
    /\ Len(rows) = 4
    /\ \E j, k \in 1..Len(rows) :
          /\ j < k
          /\ rows[j].Name # NameTotal
          /\ rows[k].Name # NameTotal
          /\ rows[j].CodeLines = rows[k].CodeLines
    /\ \E j, k \in 1..Len(rows) :
          /\ j < k
          /\ rows[j].CodeLines > rows[k].CodeLines
          /\ StrLess(rows[j].Name, rows[k].Name)
          /\ rows[j].Name # NameTotal

====
